---- MODULE Spec2Model ----
(***************************************************************************)
(* Model of the tracing layer of the weather MCP service:                  *)
(*   - app/main.py  traced_span: the decorator that wraps a sync or async  *)
(*     callable in a span, tags it with attributes computed from the call *)
(*     arguments and records the outcome;                                  *)
(*   - app/config.py  get_settings: the cached settings loader;            *)
(*   - app/logging_utils.py  setup_tracing: the exporter/provider          *)
(*     bootstrap.                                                          *)
(* Spec is the state machine of invocations of wrapped callables;          *)
(* ConfigSpec is the state machine of configuration and bootstrap;         *)
(* McpSpec is the state machine of the decorated MCP entry points;         *)
(* NestSpec is the state machine of wrapped calls made inside wrapped      *)
(* calls.                                                                  *)
(***************************************************************************)
EXTENDS Integers, Sequences, FiniteSets, TLC

VARIABLES
    inv,                \* invocation id -> the frame of that call of a wrapper
    spans,              \* the spans the tracer has created, in creation order
    environ,            \* os.environ: the two variables config.py reads
    settings_cache,     \* the lru_cache of get_settings: <<>> or <<Settings>>
    next_id,            \* identity of the next object constructed
    returned,           \* the objects get_settings() has returned, in order
    cache_clears,       \* number of get_settings.cache_clear() calls so far
    otlp_exporters,     \* OTLPSpanExporter objects constructed
    console_exporters,  \* ConsoleSpanExporter objects constructed
    batch_processors,   \* BatchSpanProcessor objects constructed
    tracer_providers,   \* TracerProvider objects constructed
    tracer_set,         \* providers handed to trace.set_tracer_provider
    instrumented,       \* instrumentor calls made by setup_tracing
    setup_calls,        \* the settings each setup_tracing call worked with
    httpx_instrumentor, \* whether the import of HTTPXClientInstrumentor succeeded
    registered,         \* entry point -> the callable handed to mcp.tool/resource/prompt
    module_names,       \* entry point -> the callable bound to its name in app.main
    via,                \* invocation id -> the entry point called and by which route
    chain,              \* invocation id -> its caller, its call chain, the span current before it
    current_span        \* call chain -> the span that is current in its context

traceVars == <<inv, spans>>
configVars == <<environ, settings_cache, next_id, returned, cache_clears,
                otlp_exporters, console_exporters, batch_processors,
                tracer_providers, tracer_set, instrumented, setup_calls,
                httpx_instrumentor>>
vars == <<inv, spans, environ, settings_cache, next_id, returned, cache_clears,
          otlp_exporters, console_exporters, batch_processors,
          tracer_providers, tracer_set, instrumented, setup_calls,
          httpx_instrumentor, registered, module_names, via, chain, current_span>>
mcpVars == <<registered, module_names, via>>
nestVars == <<chain, current_span>>

(***************************************************************************)
(* Bounds                                                                  *)
(***************************************************************************)
MaxInvocations == 2
MaxGetSettingsCalls == 1
MaxCacheClears == 1
MaxSetupCalls == 1

Invocations == 1..MaxInvocations

(***************************************************************************)
(* Values                                                                  *)
(***************************************************************************)
\* Python values stored as span attributes: str and bool are kept apart.
Str(s) == [type |-> "str", val |-> s]
Bool(b) == [type |-> "bool", val |-> IF b THEN "True" ELSE "False"]

NoValue == "NoValue"
Results == {"Rain", "Sunny"}

\* The exception classes of the model that are subclasses of Exception.  The
\* others, asyncio.CancelledError and KeyboardInterrupt, derive from
\* BaseException only.
ExceptionClasses == {"RuntimeError", "TypeError"}

\* What the wrapped callables raise in this model.
RaisedByFunc == {"RuntimeError", "KeyboardInterrupt"}

NoExc == [cls |-> "None", origin |-> "none", inv |-> 0]
\* An exception instance: its class and where it was raised (its identity).
NewExc(cls, origin, i) == [cls |-> cls, origin |-> origin, inv |-> i]

\* isinstance(exc, Exception): what `except Exception` catches.
IsExceptionInstance(exc) == exc.cls \in ExceptionClasses

StatusError == "Status(StatusCode.ERROR)"

\* The two kinds of target: `def` and `async def`.
FuncKinds == {"def", "async def"}

\* inspect.iscoroutinefunction(func)
iscoroutinefunction(func) == func = "async def"

\* Faulty variant of decorator: the target's kind is not inspected.
decorator_AlwaysSync(func) == "sync_wrapper"

\* The decorator: which wrapper it returns for a target.
decorator(func) ==
    IF iscoroutinefunction(func) THEN "async_wrapper" ELSE "sync_wrapper"

\* The traced_span(...) arguments used for the tool (async) and the prompt
\* (sync) entry points.
SpanName(func) ==
    IF func = "async def" THEN "mcp.tool.get_weather" ELSE "mcp.prompt.greeting"
SuccessAttribute(func) ==
    IF func = "async def" THEN "mcp.tool.success" ELSE "mcp.prompt.success"
CityAttribute(func) ==
    IF func = "async def" THEN "weather.city" ELSE "prompt.name"
\* The arguments the entry points are called with: a city for the tool, a
\* name for the prompt.
Args(func) == IF func = "async def" THEN {"Lisbon"} ELSE {"Sky"}

(***************************************************************************)
(* attribute_fn                                                            *)
(***************************************************************************)
\* What a call attribute_fn(*args, **kwargs) can do: raise, return None, or
\* return a mapping (here its items, in iteration order).
Raised(exc) == [kind |-> "raise", items |-> <<>>, exc |-> exc]
ReturnedNone == [kind |-> "None", items |-> <<>>, exc |-> NoExc]
ReturnedDict(items) == [kind |-> "dict", items |-> items, exc |-> NoExc]
NotCalled == [kind |-> "not called", items |-> <<>>, exc |-> NoExc]

\* attribute_fn = attribute_fn or (lambda *a, **kw: {})
DefaultAttributeFn == {ReturnedDict(<<>>)}

\* The results of a supplied attribute_fn for the argument `city` of call i:
\* the entry points' own lambda ({"weather.city": city}), a mapping that uses
\* the success attribute's key, an empty mapping, None, or an exception.
SuppliedAttributeFn(func, city, i) ==
    { ReturnedDict(<< <<CityAttribute(func), Str(city)>> >>),
      ReturnedDict(<< <<SuccessAttribute(func), Str(city)>> >>),
      ReturnedDict(<<>>),
      ReturnedNone,
      Raised(NewExc("TypeError", "attribute_fn", i)) }

AttributeFnResults(func, supplied, city, i) ==
    IF supplied THEN SuppliedAttributeFn(func, city, i) ELSE DefaultAttributeFn

\* (attribute_fn(*args, **kwargs) or {}).items()
ItemsOf(r) == IF r.kind = "dict" THEN r.items ELSE <<>>

(***************************************************************************)
(* Spans                                                                   *)
(***************************************************************************)
EmptyDict == [k \in {} |-> Str("")]

NewSpan(name, owner) ==
    [ name |-> name,
      owner |-> owner,                \* the invocation that created it
      attributes |-> EmptyDict,
      set_attribute_calls |-> <<>>,   \* <<key, value, func started?>>
      exceptions |-> <<>>,
      set_status_calls |-> <<>>,
      entered |-> 0,
      exited |-> 0 ]

\* span.set_attribute(key, value); `started` notes whether the wrapped
\* callable had started when the call was made.
set_attribute(span, key, value, started) ==
    [span EXCEPT
        !.attributes = [k \in (DOMAIN span.attributes) \cup {key} |->
                          IF k = key THEN value ELSE span.attributes[k]],
        !.set_attribute_calls = Append(@, <<key, value, started>>)]

\* span.record_exception(exc)
record_exception(span, exc) == [span EXCEPT !.exceptions = Append(@, exc)]

\* span.set_status(status)
set_status(span, status) == [span EXCEPT !.set_status_calls = Append(@, status)]

\* for key, value in items: span.set_attribute(key, value)
RECURSIVE SetItems(_, _)
SetItems(span, items) ==
    IF items = <<>> THEN span
    ELSE SetItems(set_attribute(span, items[1][1], items[1][2], FALSE), Tail(items))

(***************************************************************************)
(* Configuration values                                                    *)
(***************************************************************************)
Unset == "<unset>"          \* the variable is not in os.environ
None == "<None>"            \* Python's None
EnvNames == {"OTEL_EXPORTER_OTLP_ENDPOINT", "OTEL_SERVICE_NAME"}
\* The values either variable is given in this model.
EnvValues(name) ==
    IF name = "OTEL_EXPORTER_OTLP_ENDPOINT"
    THEN {Unset, "", "http://collector:4318"}
    ELSE {Unset, "custom-service"}

\* os.getenv(name, default)
getenv(env, name, default) == IF env[name] = Unset THEN default ELSE env[name]

_default_otel_endpoint(env) == getenv(env, "OTEL_EXPORTER_OTLP_ENDPOINT", None)
_default_service_name(env) == getenv(env, "OTEL_SERVICE_NAME", "python-mcp")

\* Settings(): a new object whose fields come from the default factories.
Settings(env, id) ==
    [ id |-> id,
      otel_endpoint |-> _default_otel_endpoint(env),
      otel_service_name |-> _default_service_name(env) ]

\* Faulty variant of get_settings: no lru_cache, every call builds a Settings.
get_settings_Uncached(cache, env, id) ==
    [ result |-> Settings(env, id), cache |-> <<Settings(env, id)>>, next_id |-> id + 1 ]

\* @lru_cache get_settings(): the cached object when there is one, else a
\* new Settings that is cached.  Yields the result, the cache afterwards and
\* the next free object identity.
get_settings(cache, env, id) ==
    IF cache # <<>>
    THEN [ result |-> cache[1], cache |-> cache, next_id |-> id ]
    ELSE [ result |-> Settings(env, id), cache |-> <<Settings(env, id)>>,
           next_id |-> id + 1 ]

\* Truth value of `settings.otel_endpoint` in `if settings.otel_endpoint:`
Truthy(x) == x # None /\ x # ""

\* Resource.create({...})
Resource == [service_name |-> "weather-service", service_namespace |-> "mcp"]

OTLPSpanExporter(id, call, endpoint, insecure) ==
    [cls |-> "OTLPSpanExporter", id |-> id, call |-> call,
     endpoint |-> endpoint, insecure |-> insecure]
ConsoleSpanExporter(id, call) ==
    [cls |-> "ConsoleSpanExporter", id |-> id, call |-> call,
     endpoint |-> None, insecure |-> FALSE]
BatchSpanProcessor(id, call, exporter) ==
    [id |-> id, call |-> call, exporter |-> exporter]
TracerProvider(id, call, resource) ==
    [id |-> id, call |-> call, resource |-> resource, processors |-> <<>>]
add_span_processor(provider, processor) ==
    [provider EXCEPT !.processors = Append(@, processor)]

\* Faulty variant of SelectExporters: the endpoint is tested with `is not None`.
SelectExporters_IsNotNone(settings, id, call) ==
    IF settings.otel_endpoint # None
    THEN <<OTLPSpanExporter(id, call, settings.otel_endpoint, TRUE)>>
    ELSE <<ConsoleSpanExporter(id, call)>>

\* span_exporters = []
\* if settings.otel_endpoint: span_exporters.append(OTLPSpanExporter(...))
\* else: span_exporters.append(ConsoleSpanExporter())
SelectExporters(settings, id, call) ==
    IF Truthy(settings.otel_endpoint)
    THEN <<OTLPSpanExporter(id, call, settings.otel_endpoint, TRUE)>>
    ELSE <<ConsoleSpanExporter(id, call)>>

\* for exporter in span_exporters:
\*     provider.add_span_processor(BatchSpanProcessor(exporter))
\* Yields the provider and the processors constructed, in order.
RECURSIVE AddProcessors(_, _, _, _)
AddProcessors(built, exporters, id, call) ==
    IF exporters = <<>> THEN built
    ELSE LET processor == BatchSpanProcessor(id, call, exporters[1])
         IN AddProcessors(
              [ provider |-> add_span_processor(built.provider, processor),
                processors |-> Append(built.processors, processor) ],
              Tail(exporters), id + 1, call)

\* The elements of a sequence that satisfy a class test.
RECURSIVE SelectCls(_, _)
SelectCls(seq, cls) ==
    IF seq = <<>> THEN <<>>
    ELSE IF seq[1].cls = cls THEN <<seq[1]>> \o SelectCls(Tail(seq), cls)
    ELSE SelectCls(Tail(seq), cls)

(***************************************************************************)
(* The decorated entry points of app.main                                  *)
(***************************************************************************)
EntryPoints == {"get_weather", "weather_forecast", "greeting_prompt"}

\* How each entry point is defined: `async def` or `def`.
EntryFunc(name) == IF name = "greeting_prompt" THEN "def" ELSE "async def"

\* A callable object: the function it is or wraps, and the wrapper around it
\* ("none" for the plain function).
Function(name) == [name |-> name, func |-> EntryFunc(name), wrapper |-> "none"]
Unbound == [name |-> "", func |-> "def", wrapper |-> "unbound"]

\* mcp.tool(...)(fn), mcp.resource(...)(fn), mcp.prompt(...)(fn): the
\* registration decorator is handed fn and returns it.
mcp_register(fn) == fn

\* traced_span(...)(fn): the wrapper the decorator returns around fn.
traced_span(fn) == [fn EXCEPT !.wrapper = decorator(fn.func)]

\* @traced_span(...)
\* @mcp.tool(...)
\* async def get_weather(...)
\* Decorators apply from the bottom up: the registration decorator is handed
\* the function, and traced_span wraps what the registration returns.
Decorate(name) ==
    [ handed |-> Function(name),
      bound |-> traced_span(mcp_register(Function(name))) ]

NotCalledVia == [route |-> "none", name |-> ""]

\* An invocation that is not part of a call chain.
NoChain == [parent |-> 0, root |-> 0, token |-> 0]

(***************************************************************************)
(* Invocation frames                                                       *)
(***************************************************************************)
Idle ==
    [ pc |-> "idle",
      func |-> "def",
      wrapper |-> "none",
      attribute_fn |-> FALSE,         \* was an attribute_fn supplied?
      city |-> NoValue,               \* the call argument
      attrs |-> NotCalled,            \* what attribute_fn did in this call
      span |-> 0,                     \* index in spans of `span`
      func_outcome |-> "not called",  \* returned | raised | cancelled
      result |-> NoValue,             \* what func returned
      func_exc |-> NoExc,             \* what func raised
      retval |-> NoValue,             \* the value on its way to the caller
      raising |-> NoExc,              \* the exception on its way to the caller
      caller_value |-> NoValue,       \* what the caller got back
      caller_exc |-> NoExc ]          \* what the caller saw raised

Init ==
    /\ inv = [i \in Invocations |-> Idle]
    /\ spans = <<>>
    /\ environ = [OTEL_EXPORTER_OTLP_ENDPOINT |-> Unset, OTEL_SERVICE_NAME |-> Unset]
    /\ httpx_instrumentor = TRUE
    /\ setup_calls = <<>>
    /\ settings_cache = <<>>
    /\ next_id = 1
    /\ returned = <<>>
    /\ cache_clears = 0
    /\ otlp_exporters = <<>>
    /\ console_exporters = <<>>
    /\ batch_processors = <<>>
    /\ tracer_providers = <<>>
    /\ tracer_set = <<>>
    /\ instrumented = <<>>
    /\ registered = [name \in EntryPoints |-> Unbound]
    /\ module_names = [name \in EntryPoints |-> Unbound]
    /\ via = [i \in Invocations |-> NotCalledVia]
    /\ chain = [i \in Invocations |-> NoChain]
    /\ current_span = [i \in Invocations |-> 0]

(***************************************************************************)
(* traced_span: the body of sync_wrapper / async_wrapper                   *)
(*                                                                         *)
(* A step of the body is a pair [frame, span]: the frame of the call and   *)
(* the span it holds in its local variable `span`.                         *)
(***************************************************************************)
\* with tracer.start_as_current_span(span_name) as span:   (__enter__)
EnterSpan(frame, i, index) ==
    [ frame |-> [frame EXCEPT !.span = index],
      span |-> [NewSpan(SpanName(frame.func), i) EXCEPT !.entered = 1] ]

\* Faulty variant of ExitSpan: the span is ended by hand after the body, so an
\* exception leaves it open.
ExitSpan_OpenOnRaise(step) ==
    [ frame |-> [step.frame EXCEPT !.pc = "done",
                                   !.caller_value = step.frame.retval,
                                   !.caller_exc = step.frame.raising],
      span |-> IF step.frame.raising = NoExc
               THEN [step.span EXCEPT !.exited = @ + 1]
               ELSE step.span ]

\* Leaving the with block (__exit__): it runs on every way out of the block,
\* and then the value or the exception reaches the caller.
ExitSpan(step) ==
    [ frame |-> [step.frame EXCEPT !.pc = "done",
                                   !.caller_value = step.frame.retval,
                                   !.caller_exc = step.frame.raising],
      span |-> [step.span EXCEPT !.exited = @ + 1] ]

\* Faulty variant of SetAttributesAndCall: the wrapped callable is started before
\* the attributes are set.
SetAttributesAndCall_CallFirst(step, r) ==
    IF r.kind = "raise"
    THEN ExitSpan([ frame |-> [step.frame EXCEPT !.attrs = r, !.raising = r.exc],
                    span |-> step.span ])
    ELSE [ frame |-> [step.frame EXCEPT !.attrs = r, !.pc = "running"],
           span |-> step.span ]

\* Faulty variant of SetAttributesAndCall: attribute_fn is called inside the try
\* block, so its exception is handled like one of the wrapped callable.
SetAttributesAndCall_InsideTry(step, r) ==
    IF r.kind = "raise"
    THEN ExitSpan(
           [ frame |-> [step.frame EXCEPT !.attrs = r, !.raising = r.exc],
             span |-> set_status(
                        record_exception(
                          set_attribute(step.span, SuccessAttribute(step.frame.func),
                                        Bool(FALSE), FALSE),
                          r.exc),
                        StatusError) ])
    ELSE [ frame |-> [step.frame EXCEPT !.attrs = r, !.pc = "running"],
           span |-> SetItems(step.span, ItemsOf(r)) ]

\* for key, value in (attribute_fn(*args, **kwargs) or {}).items():
\*     span.set_attribute(key, value)
\* try:
\*     result = func(*args, **kwargs)      (or: await func(*args, **kwargs))
\* attribute_fn is called outside the try block: when it raises, the
\* exception leaves the with block at once.  Otherwise the attributes are set
\* and the wrapped callable starts.
SetAttributesAndCall(step, r) ==
    IF r.kind = "raise"
    THEN ExitSpan([ frame |-> [step.frame EXCEPT !.attrs = r, !.raising = r.exc],
                    span |-> step.span ])
    ELSE [ frame |-> [step.frame EXCEPT !.attrs = r, !.pc = "running"],
           span |-> SetItems(step.span, ItemsOf(r)) ]

\* The wrapped callable returns v:
\*     span.set_attribute(success_attribute, True)
\*     return result
OnReturn(step, v) ==
    ExitSpan(
      [ frame |-> [step.frame EXCEPT !.func_outcome = "returned",
                                     !.result = v, !.retval = v],
        span |-> set_attribute(step.span, SuccessAttribute(step.frame.func),
                               Bool(TRUE), TRUE) ])

\* except Exception as exc:
\*     span.set_attribute(success_attribute, False)
\*     span.record_exception(exc)
\*     span.set_status(Status(StatusCode.ERROR))
\*     raise
ExceptHandler(span, success_attribute, exc) ==
    set_status(
      record_exception(
        set_attribute(span, success_attribute, Bool(FALSE), TRUE),
        exc),
      StatusError)

\* Faulty variant of OnRaise: the handler swallows the exception.
OnRaise_Swallow(step, exc, outcome) ==
    ExitSpan(
      [ frame |-> [step.frame EXCEPT !.func_outcome = outcome, !.func_exc = exc],
        span |-> IF IsExceptionInstance(exc)
                 THEN ExceptHandler(step.span, SuccessAttribute(step.frame.func), exc)
                 ELSE step.span ])

\* An exception exc leaves `func(...)` / `await func(...)` inside the try
\* block.  The handler runs for instances of Exception only; anything else
\* passes it untouched.  Either way exc goes on to the caller.
OnRaise(step, exc, outcome) ==
    ExitSpan(
      [ frame |-> [step.frame EXCEPT !.func_outcome = outcome,
                                     !.func_exc = exc, !.raising = exc],
        span |-> IF IsExceptionInstance(exc)
                 THEN ExceptHandler(step.span, SuccessAttribute(step.frame.func), exc)
                 ELSE step.span ])

(***************************************************************************)
(* Actions of the wrappers                                                 *)
(***************************************************************************)
\* The body runs from its start to the point where the wrapped callable is
\* running (the async wrapper is then suspended in the await), or to its end
\* when attribute_fn raises.
RunBody(i, frame, r) ==
    LET step == SetAttributesAndCall(EnterSpan(frame, i, Len(spans) + 1), r)
    IN /\ inv' = [inv EXCEPT ![i] = step.frame]
       /\ spans' = Append(spans, step.span)

\* Faulty variant of Finish: the writes land on the span opened last, not on
\* the span of the call.
Finish_LatestSpan(i, step) ==
    /\ inv' = [inv EXCEPT ![i] = step.frame]
    /\ spans' = [spans EXCEPT ![Len(spans)] = step.span]

\* The rest of the body, from the point where the wrapped callable ends.
Finish(i, step) ==
    /\ inv' = [inv EXCEPT ![i] = step.frame]
    /\ spans' = [spans EXCEPT ![inv[i].span] = step.span]

Current(i) == [frame |-> inv[i], span |-> spans[inv[i].span]]

\* A caller calls the callable that traced_span(...)(func) returned.  Calling
\* sync_wrapper runs its body on the caller's thread; calling async_wrapper
\* only creates the coroutine.
Call(i, func, supplied, city) ==
    /\ inv[i].pc = "idle"
    /\ \A j \in Invocations : j < i => inv[j].pc # "idle"
    /\ LET frame == [Idle EXCEPT !.func = func,
                                 !.wrapper = decorator(func),
                                 !.attribute_fn = supplied,
                                 !.city = city]
       IN IF frame.wrapper = "async_wrapper"
          THEN /\ inv' = [inv EXCEPT ![i] = [frame EXCEPT !.pc = "created"]]
               /\ UNCHANGED spans
          ELSE \E r \in AttributeFnResults(func, supplied, city, i) :
                  RunBody(i, frame, r)
    /\ UNCHANGED <<configVars, mcpVars, nestVars>>

\* The coroutine of async_wrapper is awaited and starts running.
Await(i) ==
    /\ inv[i].pc = "created"
    /\ \E r \in AttributeFnResults(inv[i].func, inv[i].attribute_fn, inv[i].city, i) :
          RunBody(i, inv[i], r)
    /\ UNCHANGED <<configVars, mcpVars, nestVars>>

FuncReturns(i, v) ==
    /\ inv[i].pc = "running"
    /\ Finish(i, OnReturn(Current(i), v))
    /\ UNCHANGED <<configVars, mcpVars, nestVars>>

FuncRaises(i, cls) ==
    /\ inv[i].pc = "running"
    /\ Finish(i, OnRaise(Current(i), NewExc(cls, "func", i), "raised"))
    /\ UNCHANGED <<configVars, mcpVars, nestVars>>

\* The task awaiting an async wrapper is cancelled while the wrapper is
\* suspended in `await func(...)`: CancelledError is raised at the await.
Cancel(i) ==
    /\ inv[i].pc = "running"
    /\ inv[i].wrapper = "async_wrapper"
    /\ Finish(i, OnRaise(Current(i), NewExc("CancelledError", "cancel", i), "cancelled"))
    /\ UNCHANGED <<configVars, mcpVars, nestVars>>

Next ==
    \/ \E i \in Invocations, func \in FuncKinds, supplied \in BOOLEAN :
          \E city \in Args(func) : Call(i, func, supplied, city)
    \/ \E i \in Invocations : Await(i)
    \/ \E i \in Invocations, v \in Results : FuncReturns(i, v)
    \/ \E i \in Invocations, cls \in RaisedByFunc : FuncRaises(i, cls)
    \/ \E i \in Invocations : Cancel(i)

Spec == Init /\ [][Next]_vars

(***************************************************************************)
(* Configuration and bootstrap                                             *)
(***************************************************************************)
\* The process may start with any environment, with or without the httpx
\* instrumentation package.
ConfigInit ==
    /\ inv = [i \in Invocations |-> Idle]
    /\ spans = <<>>
    /\ environ \in [EnvNames -> {Unset, "", "http://collector:4318", "custom-service"}]
    /\ \A name \in EnvNames : environ[name] \in EnvValues(name)
    /\ httpx_instrumentor \in BOOLEAN
    /\ setup_calls = <<>>
    /\ settings_cache = <<>>
    /\ next_id = 1
    /\ returned = <<>>
    /\ cache_clears = 0
    /\ otlp_exporters = <<>>
    /\ console_exporters = <<>>
    /\ batch_processors = <<>>
    /\ tracer_providers = <<>>
    /\ tracer_set = <<>>
    /\ instrumented = <<>>
    /\ registered = [name \in EntryPoints |-> Unbound]
    /\ module_names = [name \in EntryPoints |-> Unbound]
    /\ via = [i \in Invocations |-> NotCalledVia]
    /\ chain = [i \in Invocations |-> NoChain]
    /\ current_span = [i \in Invocations |-> 0]

\* What a call of get_settings() is noted as: the object returned, the
\* number of cache_clear() calls before it, who called, and whether the
\* environment at the time of the call still resolves to the object's fields.
ReturnNote(settings, by) ==
    [ settings |-> settings,
      clears |-> cache_clears,
      by |-> by,
      environ_matches |->
          /\ settings.otel_endpoint = _default_otel_endpoint(environ)
          /\ settings.otel_service_name = _default_service_name(environ) ]

DirectCalls == {k \in 1..Len(returned) : returned[k].by = "caller"}

\* The environment changes: os.environ[name] = value, or del os.environ[name].
SetEnv(name, value) ==
    /\ environ[name] # value
    /\ environ' = [environ EXCEPT ![name] = value]
    /\ UNCHANGED <<settings_cache, next_id, returned, cache_clears, otlp_exporters,
                   console_exporters, batch_processors, tracer_providers,
                   tracer_set, instrumented, setup_calls, httpx_instrumentor>>
    /\ UNCHANGED <<traceVars, mcpVars, nestVars>>

\* Some code calls get_settings().
GetSettings ==
    /\ Cardinality(DirectCalls) < MaxGetSettingsCalls
    /\ LET got == get_settings(settings_cache, environ, next_id)
       IN /\ settings_cache' = got.cache
          /\ next_id' = got.next_id
          /\ returned' = Append(returned, ReturnNote(got.result, "caller"))
    /\ UNCHANGED <<environ, cache_clears, otlp_exporters, console_exporters,
                   batch_processors, tracer_providers, tracer_set, instrumented,
                   setup_calls, httpx_instrumentor>>
    /\ UNCHANGED <<traceVars, mcpVars, nestVars>>

\* get_settings.cache_clear()
CacheClear ==
    /\ cache_clears < MaxCacheClears
    /\ settings_cache' = <<>>
    /\ cache_clears' = cache_clears + 1
    /\ UNCHANGED <<environ, next_id, returned, otlp_exporters, console_exporters,
                   batch_processors, tracer_providers, tracer_set, instrumented,
                   setup_calls, httpx_instrumentor>>
    /\ UNCHANGED <<traceVars, mcpVars, nestVars>>

\* setup_tracing(app)
SetupTracing ==
    /\ Len(setup_calls) < MaxSetupCalls
    /\ LET call == Len(setup_calls) + 1
           got == get_settings(settings_cache, environ, next_id)
           settings == got.result
           span_exporters == SelectExporters(settings, got.next_id, call)
           provider_id == got.next_id + Len(span_exporters)
           built == AddProcessors(
                      [ provider |-> TracerProvider(provider_id, call, Resource),
                        processors |-> <<>> ],
                      span_exporters, provider_id + 1, call)
       IN /\ settings_cache' = got.cache
          /\ returned' = Append(returned, ReturnNote(settings, "setup_tracing"))
          /\ setup_calls' = Append(setup_calls, settings)
          /\ otlp_exporters' = otlp_exporters \o SelectCls(span_exporters, "OTLPSpanExporter")
          /\ console_exporters' =
                console_exporters \o SelectCls(span_exporters, "ConsoleSpanExporter")
          /\ batch_processors' = batch_processors \o built.processors
          /\ tracer_providers' = Append(tracer_providers, built.provider)
          /\ tracer_set' = Append(tracer_set, built.provider)
          /\ next_id' = provider_id + 1 + Len(built.processors)
          /\ instrumented' =
                instrumented \o <<"FastAPIInstrumentor.instrument_app">>
                    \o (IF httpx_instrumentor
                        THEN <<"HTTPXClientInstrumentor.instrument">> ELSE <<>>)
    /\ UNCHANGED <<environ, cache_clears, httpx_instrumentor>>
    /\ UNCHANGED <<traceVars, mcpVars, nestVars>>

ConfigNext ==
    \/ \E name \in EnvNames : \E value \in EnvValues(name) : SetEnv(name, value)
    \/ GetSettings
    \/ CacheClear
    \/ SetupTracing

ConfigSpec == ConfigInit /\ [][ConfigNext]_vars

(***************************************************************************)
(* The MCP entry points: decoration at import, and calls                   *)
(***************************************************************************)
\* Importing app.main runs the decorators of the three entry points.
ImportMain ==
    /\ \A name \in EntryPoints : module_names[name] = Unbound
    /\ registered' = [name \in EntryPoints |-> Decorate(name).handed]
    /\ module_names' = [name \in EntryPoints |-> Decorate(name).bound]
    /\ UNCHANGED <<traceVars, configVars, nestVars, via>>

\* The entry points whose traced_span arguments SpanName and
\* SuccessAttribute carry (weather_forecast is decorated like get_weather).
CalledEntryPoints == {"get_weather", "greeting_prompt"}

\* An entry point is called: by its module-level name (as a Python caller
\* does), or through the callable that was handed to the registration
\* decorator (as the MCP framework does).  A traced wrapper runs as in Call;
\* the plain function runs with no wrapper around it.
CallEntryPoint(i, name, route) ==
    /\ inv[i].pc = "idle"
    /\ \A j \in Invocations : j < i => inv[j].pc # "idle"
    /\ LET callable == IF route = "module" THEN module_names[name] ELSE registered[name]
           frame == [Idle EXCEPT !.func = callable.func,
                                 !.wrapper = callable.wrapper,
                                 !.attribute_fn = TRUE]
       IN /\ callable # Unbound
          /\ \E city \in Args(callable.func) :
               IF callable.wrapper = "none"
               THEN /\ inv' = [inv EXCEPT ![i] = [frame EXCEPT !.pc = "running plain",
                                                               !.attribute_fn = FALSE,
                                                               !.city = city]]
                    /\ UNCHANGED spans
               ELSE IF callable.wrapper = "async_wrapper"
               THEN /\ inv' = [inv EXCEPT ![i] = [frame EXCEPT !.pc = "created",
                                                               !.city = city]]
                    /\ UNCHANGED spans
               ELSE \E r \in AttributeFnResults(callable.func, TRUE, city, i) :
                       RunBody(i, [frame EXCEPT !.city = city], r)
    /\ via' = [via EXCEPT ![i] = [route |-> route, name |-> name]]
    /\ UNCHANGED <<configVars, nestVars, registered, module_names>>

\* The plain function returns v to its caller.
PlainReturns(i, v) ==
    /\ inv[i].pc = "running plain"
    /\ inv' = [inv EXCEPT ![i] = [@ EXCEPT !.pc = "done",
                                           !.func_outcome = "returned",
                                           !.result = v, !.retval = v,
                                           !.caller_value = v]]
    /\ UNCHANGED <<spans, configVars, mcpVars, nestVars>>

\* The plain function raises to its caller.
PlainRaises(i, cls) ==
    /\ inv[i].pc = "running plain"
    /\ LET exc == NewExc(cls, "func", i)
       IN inv' = [inv EXCEPT ![i] = [@ EXCEPT !.pc = "done",
                                              !.func_outcome = "raised",
                                              !.func_exc = exc, !.raising = exc,
                                              !.caller_exc = exc]]
    /\ UNCHANGED <<spans, configVars, mcpVars, nestVars>>

McpNext ==
    \/ ImportMain
    \/ \E i \in Invocations, name \in CalledEntryPoints, route \in {"module", "registry"} :
          CallEntryPoint(i, name, route)
    \/ \E i \in Invocations : Await(i)
    \/ \E i \in Invocations, v \in Results : FuncReturns(i, v)
    \/ \E i \in Invocations, cls \in RaisedByFunc : FuncRaises(i, cls)
    \/ \E i \in Invocations : Cancel(i)
    \/ \E i \in Invocations, v \in Results : PlainReturns(i, v)
    \/ \E i \in Invocations, cls \in RaisedByFunc : PlainRaises(i, cls)

McpSpec == Init /\ [][McpNext]_vars

(***************************************************************************)
(* Wrapped calls made inside wrapped calls                                 *)
(***************************************************************************)
\* `with tracer.start_as_current_span(name) as span:` makes the new span the
\* current span of the context it is entered in, and on exit makes the span
\* that was current before the current one again.  Each top-level call runs
\* in a context of its own (its task or thread), named by the call's id.
Attach(context, root, index) == [context EXCEPT ![root] = index]

\* Faulty variant of Detach: the exit leaves the context with no current span.
Detach_ToNone(context, root, token) == [context EXCEPT ![root] = 0]

Detach(context, root, token) == [context EXCEPT ![root] = token]

\* The calls made by the wrapped callable of call p.
Children(p) == {j \in Invocations : chain[j].parent = p /\ inv[j].pc # "idle"}

\* The wrapped callable of call i is running and is not inside a call it made.
Innermost(i) ==
    /\ inv[i].pc = "running"
    /\ \A j \in Children(i) : inv[j].pc # "running"

RootOf(i, p) == IF p = 0 THEN i ELSE chain[p].root

\* The span of call i was entered in this step: the span current in the
\* context is kept as the token, and unless the body has already ended
\* (attribute_fn raised) the new span is the current one.
Entered(i, p) ==
    LET root == RootOf(i, p)
    IN /\ chain' = [chain EXCEPT ![i] = [parent |-> p, root |-> root,
                                         token |-> current_span[root]]]
       /\ current_span' = IF inv'[i].pc = "done"
                          THEN Detach(Attach(current_span, root, Len(spans')),
                                      root, current_span[root])
                          ELSE Attach(current_span, root, Len(spans'))

\* The span of call i was exited in this step.
Exited(i) ==
    /\ current_span' = Detach(current_span, chain[i].root, chain[i].token)
    /\ UNCHANGED chain

\* A wrapped callable is called at top level (p = 0), or by the wrapped
\* callable of call p while it runs.
NestedCall(i, p, func, supplied, city) ==
    /\ inv[i].pc = "idle"
    /\ \A j \in Invocations : j < i => inv[j].pc # "idle"
    /\ p # 0 => (p # i /\ Innermost(p))
    /\ LET frame == [Idle EXCEPT !.func = func,
                                 !.wrapper = decorator(func),
                                 !.attribute_fn = supplied,
                                 !.city = city]
       IN IF frame.wrapper = "async_wrapper"
          THEN /\ inv' = [inv EXCEPT ![i] = [frame EXCEPT !.pc = "created"]]
               /\ chain' = [chain EXCEPT ![i] = [parent |-> p, root |-> RootOf(i, p),
                                                 token |-> 0]]
               /\ UNCHANGED <<spans, current_span>>
          ELSE /\ \E r \in AttributeFnResults(func, supplied, city, i) :
                     RunBody(i, frame, r)
               /\ Entered(i, p)
    /\ UNCHANGED <<configVars, mcpVars>>

\* The coroutine of async_wrapper is awaited: at top level, or by the async
\* callable that created it.
NestedAwait(i) ==
    /\ inv[i].pc = "created"
    /\ chain[i].parent # 0 =>
          (Innermost(chain[i].parent) /\ inv[chain[i].parent].func = "async def")
    /\ \E r \in AttributeFnResults(inv[i].func, inv[i].attribute_fn, inv[i].city, i) :
          RunBody(i, inv[i], r)
    /\ Entered(i, chain[i].parent)
    /\ UNCHANGED <<configVars, mcpVars>>

NestedFuncReturns(i, v) ==
    /\ Innermost(i)
    /\ Finish(i, OnReturn(Current(i), v))
    /\ Exited(i)
    /\ UNCHANGED <<configVars, mcpVars>>

NestedFuncRaises(i, cls) ==
    /\ Innermost(i)
    /\ Finish(i, OnRaise(Current(i), NewExc(cls, "func", i), "raised"))
    /\ Exited(i)
    /\ UNCHANGED <<configVars, mcpVars>>

\* CancelledError is raised at the await where the task is suspended.
NestedCancel(i) ==
    /\ Innermost(i)
    /\ inv[i].wrapper = "async_wrapper"
    /\ Finish(i, OnRaise(Current(i), NewExc("CancelledError", "cancel", i), "cancelled"))
    /\ Exited(i)
    /\ UNCHANGED <<configVars, mcpVars>>

NestNext ==
    \/ \E i \in Invocations, p \in {0} \cup Invocations, func \in FuncKinds,
          supplied \in BOOLEAN :
          \E city \in Args(func) : NestedCall(i, p, func, supplied, city)
    \/ \E i \in Invocations : NestedAwait(i)
    \/ \E i \in Invocations, v \in Results : NestedFuncReturns(i, v)
    \/ \E i \in Invocations, cls \in RaisedByFunc : NestedFuncRaises(i, cls)
    \/ \E i \in Invocations : NestedCancel(i)

NestSpec == Init /\ [][NestNext]_vars

(***************************************************************************)
(* Properties of the wrappers (checked under Spec)                         *)
(***************************************************************************)
Called(i) == inv[i].pc # "idle"
Done(i) == inv[i].pc = "done"
\* The wrapped callable was started in call i.
FuncRan(i) == inv[i].func_outcome # "not called" \/ inv[i].pc = "running"
FuncEnded(i) == inv[i].func_outcome # "not called"
SpanOf(i) == spans[inv[i].span]
SpansOpenedBy(i) == {k \in 1..Len(spans) : spans[k].owner = i}
SuccessKey(i) == SuccessAttribute(inv[i].func)

\* The set_attribute calls that record the outcome on the span of call i.
SuccessWrites(i) ==
    {k \in 1..Len(SpanOf(i).set_attribute_calls) :
        /\ SpanOf(i).set_attribute_calls[k][1] = SuccessKey(i)
        /\ SpanOf(i).set_attribute_calls[k][2].type = "bool"}
\* All set_attribute calls on the success attribute's key.
SuccessKeyWrites(i) ==
    {k \in 1..Len(SpanOf(i).set_attribute_calls) :
        SpanOf(i).set_attribute_calls[k][1] = SuccessKey(i)}
HasAttribute(span, key, value) ==
    key \in DOMAIN span.attributes /\ span.attributes[key] = value
\* The key/value pairs attribute_fn returned in call i.
ReturnedItems(i) == {ItemsOf(inv[i].attrs)[k] : k \in 1..Len(ItemsOf(inv[i].attrs))}
\* The set_attribute calls made before the wrapped callable started.
EarlyWrites(i) ==
    {k \in 1..Len(SpanOf(i).set_attribute_calls) :
        ~SpanOf(i).set_attribute_calls[k][3]}

\* C1: every invocation of a wrapped callable opens exactly one span, and
\* that span has been closed exactly once when the wrapper returns or raises
\* to its caller, however the invocation ends (return, exception of the
\* callable, exception of attribute_fn, cancellation); no span is closed
\* before that, and none is left open.
C1_OneSpanOpenedAndClosed ==
    \A i \in Invocations :
        /\ inv[i].pc \in {"idle", "created"} => SpansOpenedBy(i) = {}
        /\ inv[i].pc \in {"running", "done"} =>
              /\ SpansOpenedBy(i) = {inv[i].span}
              /\ SpanOf(i).entered = 1
        /\ inv[i].pc = "running" => SpanOf(i).exited = 0
        /\ Done(i) => SpanOf(i).exited = 1

C1_Witness ==
    \E i, j \in Invocations :
        /\ Done(i) /\ inv[i].func_outcome = "cancelled" /\ SpanOf(i).exited = 1
        /\ Done(j) /\ inv[j].attrs.kind = "raise" /\ SpanOf(j).exited = 1

\* C2: in every invocation in which the wrapped callable ran, the success
\* attribute is set exactly once, to true if and only if the callable
\* returned and to false if and only if it raised.
C2_SuccessSetOnceConsistent ==
    \A i \in Invocations :
        (Done(i) /\ FuncEnded(i)) =>
            /\ Cardinality(SuccessWrites(i)) = 1
            /\ HasAttribute(SpanOf(i), SuccessKey(i),
                            Bool(inv[i].func_outcome = "returned"))

\* C3: the wrapper records the exception and sets the error status if and
\* only if the wrapped callable raised.
C3_ExceptionRecordedIffRaised ==
    \A i \in Invocations :
        Done(i) =>
            /\ inv[i].func_outcome \in {"raised", "cancelled"} =>
                  /\ SpanOf(i).exceptions = <<inv[i].func_exc>>
                  /\ SpanOf(i).set_status_calls = <<StatusError>>
            /\ inv[i].func_outcome = "returned" =>
                  /\ SpanOf(i).exceptions = <<>>
                  /\ SpanOf(i).set_status_calls = <<>>

\* C4: the caller gets the value the wrapped callable returned, or sees the
\* very exception instance it raised; an exception is never swallowed,
\* replaced or turned into a return value.
C4_Transparent ==
    \A i \in Invocations :
        Done(i) =>
            /\ inv[i].func_outcome = "returned" =>
                  /\ inv[i].caller_value = inv[i].result
                  /\ inv[i].result \in Results
                  /\ inv[i].caller_exc = NoExc
            /\ inv[i].func_outcome \in {"raised", "cancelled"} =>
                  /\ inv[i].caller_exc = inv[i].func_exc
                  /\ inv[i].func_exc # NoExc
                  /\ inv[i].caller_value = NoValue

C4_Witness ==
    \E i, j \in Invocations :
        /\ Done(i) /\ inv[i].func_outcome = "raised"
        /\ inv[i].caller_exc = NewExc("RuntimeError", "func", i)
        /\ Done(j) /\ inv[j].func_outcome = "returned"
        /\ inv[j].caller_value \in Results

\* C5 as stated: every pair attribute_fn returned is on the span before the
\* wrapped callable starts and is still there when the span is closed;
\* without attribute_fn, or when it returns None or an empty mapping, nothing
\* is set before the call.
C5_AttributesSetBeforeAndKept ==
    \A i \in Invocations :
        /\ FuncRan(i) =>
              /\ \A kv \in ReturnedItems(i) :
                    \E k \in EarlyWrites(i) :
                       /\ SpanOf(i).set_attribute_calls[k][1] = kv[1]
                       /\ SpanOf(i).set_attribute_calls[k][2] = kv[2]
              /\ ReturnedItems(i) = {} => EarlyWrites(i) = {}
        /\ inv[i].pc = "running" =>
              \A kv \in ReturnedItems(i) : HasAttribute(SpanOf(i), kv[1], kv[2])
        /\ (Done(i) /\ FuncEnded(i)) =>
              \A kv \in ReturnedItems(i) : HasAttribute(SpanOf(i), kv[1], kv[2])

\* C5 as amended: every pair attribute_fn returned is on the span before
\* the wrapped callable starts; when the span is closed every pair is still
\* there, except a pair whose key is the success attribute itself, which the
\* outcome flag replaces when the wrapper records one.
C5_AttributesSetBeforeAndKeptUnlessSuccessKey ==
    \A i \in Invocations :
        /\ FuncRan(i) =>
              /\ \A kv \in ReturnedItems(i) :
                    \E k \in EarlyWrites(i) :
                       /\ SpanOf(i).set_attribute_calls[k][1] = kv[1]
                       /\ SpanOf(i).set_attribute_calls[k][2] = kv[2]
              /\ ReturnedItems(i) = {} => EarlyWrites(i) = {}
        /\ inv[i].pc = "running" =>
              \A kv \in ReturnedItems(i) : HasAttribute(SpanOf(i), kv[1], kv[2])
        /\ (Done(i) /\ FuncEnded(i)) =>
              \A kv \in ReturnedItems(i) :
                 IF kv[1] = SuccessKey(i) /\ SuccessWrites(i) # {}
                 THEN SpanOf(i).attributes[kv[1]].type = "bool"
                 ELSE HasAttribute(SpanOf(i), kv[1], kv[2])

C5_Witness ==
    \E i, j \in Invocations :
        /\ Done(i) /\ inv[i].func_outcome = "raised"
        /\ \E kv \in ReturnedItems(i) :
              kv[1] = SuccessKey(i) /\ ~HasAttribute(SpanOf(i), kv[1], kv[2])
        /\ inv[j].pc = "running"
        /\ \E kv \in ReturnedItems(j) :
              kv[1] # SuccessKey(j) /\ HasAttribute(SpanOf(j), kv[1], kv[2])

\* C6: a cancellation of the suspended async wrapper is handled like an
\* exception: success attribute false, status error, the cancellation
\* exception recorded, span closed.
C6_CancellationRecordedAsFailure ==
    \A i \in Invocations :
        (Done(i) /\ inv[i].func_outcome = "cancelled") =>
            /\ HasAttribute(SpanOf(i), SuccessKey(i), Bool(FALSE))
            /\ SpanOf(i).set_status_calls = <<StatusError>>
            /\ SpanOf(i).exceptions = <<inv[i].func_exc>>
            /\ SpanOf(i).exited = 1

\* C7: when attribute_fn raises, the wrapped callable is never invoked, the
\* success attribute is never set, the wrapper records no exception and sets
\* no status, the span is closed, and the exception of attribute_fn reaches
\* the caller.
C7_AttributeFnRaises ==
    \A i \in Invocations :
        inv[i].attrs.kind = "raise" =>
            /\ Done(i)
            /\ ~FuncRan(i)
            /\ SuccessKeyWrites(i) = {}
            /\ SpanOf(i).set_attribute_calls = <<>>
            /\ SpanOf(i).exceptions = <<>>
            /\ SpanOf(i).set_status_calls = <<>>
            /\ SpanOf(i).entered = 1 /\ SpanOf(i).exited = 1
            /\ inv[i].caller_exc = inv[i].attrs.exc
            /\ inv[i].caller_exc.origin = "attribute_fn"
            /\ inv[i].caller_value = NoValue

C7_Witness ==
    \E i, j \in Invocations :
        /\ inv[i].attrs.kind = "raise" /\ inv[i].wrapper = "sync_wrapper" /\ Done(i)
        /\ inv[j].attrs.kind = "raise" /\ inv[j].wrapper = "async_wrapper" /\ Done(j)

\* C8: a `def` target always gets the synchronous wrapper, which has run the
\* callable and settled and closed the span when it returns; an `async def`
\* target always gets the asynchronous wrapper: calling it runs nothing, and
\* while the awaited callable has not completed its span is open with no
\* outcome recorded.
C8_CallingConventionPreserved ==
    \A i \in Invocations :
        Called(i) =>
            /\ inv[i].func = "def" <=> inv[i].wrapper = "sync_wrapper"
            /\ inv[i].func = "async def" <=> inv[i].wrapper = "async_wrapper"
            /\ inv[i].pc = "created" => inv[i].wrapper = "async_wrapper"
            /\ (inv[i].wrapper = "sync_wrapper" /\ Done(i) /\ inv[i].caller_exc = NoExc) =>
                  /\ inv[i].func_outcome = "returned"
                  /\ HasAttribute(SpanOf(i), SuccessKey(i), Bool(TRUE))
                  /\ SpanOf(i).exited = 1
            /\ (inv[i].wrapper = "async_wrapper" /\ inv[i].pc = "running") =>
                  /\ SpanOf(i).entered = 1 /\ SpanOf(i).exited = 0
                  /\ SuccessWrites(i) = {}
                  /\ SpanOf(i).exceptions = <<>>
                  /\ SpanOf(i).set_status_calls = <<>>

C8_Witness ==
    \E i, j \in Invocations :
        /\ inv[i].func = "async def" /\ inv[i].pc = "running"
        /\ inv[j].func = "def" /\ Done(j) /\ inv[j].func_outcome = "returned"

(***************************************************************************)
(* Properties of configuration and bootstrap (checked under ConfigSpec)    *)
(***************************************************************************)
WithCall(seq, call) == {k \in 1..Len(seq) : seq[k].call = call}

\* C9: every run of setup_tracing builds its exporter from the settings
\* alone: with a non-empty endpoint one OTLP exporter with that endpoint and
\* insecure = true and no console exporter, with no endpoint or an empty one
\* one console exporter and no OTLP exporter; the one exporter is wrapped in
\* the one batch processor, which is the only processor of the one provider
\* built, and that provider is the one handed to set_tracer_provider.
C9_ExporterSelection ==
    /\ Len(tracer_set) = Len(setup_calls)
    /\ \A call \in 1..Len(setup_calls) :
         LET endpoint == setup_calls[call].otel_endpoint
             otlp == WithCall(otlp_exporters, call)
             console == WithCall(console_exporters, call)
             procs == WithCall(batch_processors, call)
             provs == WithCall(tracer_providers, call)
         IN /\ IF endpoint # None /\ endpoint # ""
               THEN /\ Cardinality(otlp) = 1 /\ console = {}
                    /\ \A k \in otlp : /\ otlp_exporters[k].endpoint = endpoint
                                       /\ otlp_exporters[k].insecure = TRUE
               ELSE /\ Cardinality(console) = 1 /\ otlp = {}
            /\ Cardinality(procs) = 1
            /\ \A k \in procs :
                  /\ \A e \in otlp : batch_processors[k].exporter = otlp_exporters[e]
                  /\ \A e \in console : batch_processors[k].exporter = console_exporters[e]
            /\ Cardinality(provs) = 1
            /\ \A k \in provs :
                  /\ \A q \in procs : tracer_providers[k].processors = <<batch_processors[q]>>
                  /\ tracer_set[call].id = tracer_providers[k].id
                  /\ tracer_set[call].processors = tracer_providers[k].processors

C9_Witness ==
    \E call \in 1..Len(setup_calls) :
        /\ setup_calls[call].otel_endpoint = "http://collector:4318"
        /\ \E e \in WithCall(otlp_exporters, call), q \in WithCall(batch_processors, call) :
              /\ otlp_exporters[e].endpoint = "http://collector:4318"
              /\ batch_processors[q].exporter = otlp_exporters[e]
              /\ tracer_set[call].processors = <<batch_processors[q]>>

\* C10: between two cache_clear() calls every call of get_settings() returns
\* the very same Settings object, with the same otel_endpoint and
\* otel_service_name, whatever happens to the environment in between.
C10_SettingsResolvedOnce ==
    \A a, b \in 1..Len(returned) :
        returned[a].clears = returned[b].clears =>
            /\ returned[a].settings.id = returned[b].settings.id
            /\ returned[a].settings.otel_endpoint = returned[b].settings.otel_endpoint
            /\ returned[a].settings.otel_service_name = returned[b].settings.otel_service_name

C10_Witness ==
    \E a, b \in 1..Len(returned) :
        /\ a < b
        /\ returned[a].clears = returned[b].clears
        /\ returned[a].environ_matches
        /\ ~returned[b].environ_matches
        /\ returned[a].settings = returned[b].settings

(***************************************************************************)
(* Properties of the entry points (checked under McpSpec)                  *)
(***************************************************************************)
IsTracedWrapper(callable) == callable.wrapper \in {"async_wrapper", "sync_wrapper"}

\* C11: for each MCP entry point the callable handed to the registration
\* decorator is the traced wrapper, so every invocation made through the
\* registered callable opens a span, which is closed with the outcome of a
\* callable that returned or raised an Exception recorded on it.
C11_RegisteredCallableIsTraced ==
    /\ \A name \in EntryPoints :
          registered[name] # Unbound => IsTracedWrapper(registered[name])
    /\ \A i \in Invocations :
          (via[i].route = "registry" /\ Done(i)) =>
              /\ inv[i].span # 0
              /\ SpanOf(i).entered = 1 /\ SpanOf(i).exited = 1
              /\ (inv[i].func_outcome = "returned"
                    \/ (FuncEnded(i) /\ IsExceptionInstance(inv[i].func_exc)))
                 => SuccessWrites(i) # {}

(***************************************************************************)
(* Properties of concurrent invocations (checked under Spec)               *)
(***************************************************************************)
\* Each invocation that opened a span holds a span of its own, no span is
\* held by two invocations, and what is recorded on a span came from the
\* invocation that opened it.
OwnSpan ==
    /\ \A k \in 1..Len(spans) :
          /\ spans[k].owner \in Invocations
          /\ inv[spans[k].owner].span = k
          /\ spans[k].name = SpanName(inv[spans[k].owner].func)
          /\ \A e \in 1..Len(spans[k].exceptions) :
                spans[k].exceptions[e].inv = spans[k].owner
    /\ \A i, j \in Invocations :
          (i # j /\ inv[i].span # 0) => inv[i].span # inv[j].span

\* A step of one invocation (opening its span, writing attributes, recording
\* the outcome, closing) changes no span but its own, and no span changes
\* without a step of the invocation that opened it.
WritesOwnSpanOnly ==
    /\ Len(spans') >= Len(spans)
    /\ \A k \in 1..Len(spans) :
          spans'[k] # spans[k] =>
              /\ inv'[spans[k].owner] # inv[spans[k].owner]
              /\ spans'[k].owner = spans[k].owner
    /\ \A i \in Invocations, k \in 1..Len(spans') :
          (inv'[i] # inv[i] /\ k # inv'[i].span) =>
              (k <= Len(spans) /\ spans'[k] = spans[k])

\* C12: under any interleaving of concurrent invocations each invocation
\* has its own span, every write of an invocation lands on its own span, and
\* an invocation that finishes or fails neither changes nor closes the span
\* of another invocation.
C12_SpansIndependent == []OwnSpan /\ [][WritesOwnSpanOnly]_vars

\* One invocation has failed and closed its span while another, started
\* before the first ended, is still running on an open span that carries no
\* outcome.
C12_Witness ==
    \E i, j \in Invocations :
        /\ i # j
        /\ Done(i) /\ inv[i].span # 0 /\ SpanOf(i).exited = 1
        /\ SpanOf(i).exceptions # <<>>
        /\ HasAttribute(SpanOf(i), SuccessKey(i), Bool(FALSE))
        /\ inv[j].pc = "running" /\ inv[j].span # 0 /\ inv[j].span # inv[i].span
        /\ SpanOf(j).exited = 0 /\ SpanOf(j).exceptions = <<>>
        /\ SpanOf(j).set_status_calls = <<>>
        /\ SuccessWrites(j) = {}

(***************************************************************************)
(* Properties of nested wrapped calls (checked under NestSpec)             *)
(***************************************************************************)
RECURSIVE AncestorsOrSelf(_)
AncestorsOrSelf(i) ==
    IF chain[i].parent = 0 THEN {i} ELSE {i} \cup AncestorsOrSelf(chain[i].parent)

\* While the wrapped callable of a call runs, the call's span is open and is
\* the current span of its chain, or the current span is that of a call made
\* inside it; a span opened inside was opened after the enclosing span, with
\* the enclosing span current, and the enclosing span is not closed before it.
NestedLIFO ==
    \A i \in Invocations :
        inv[i].span # 0 =>
            LET p == chain[i].parent
                root == chain[i].root
            IN /\ p = 0 => (root = i /\ chain[i].token = 0)
               /\ p # 0 =>
                     /\ inv[p].span # 0 /\ root = chain[p].root
                     /\ chain[i].token = inv[p].span
                     /\ inv[i].span > inv[p].span
                     /\ SpanOf(p).entered = 1
                     /\ SpanOf(i).exited = 0 => (SpanOf(p).exited = 0 /\ inv[p].pc = "running")
               /\ inv[i].pc = "running" =>
                     /\ SpanOf(i).entered = 1 /\ SpanOf(i).exited = 0
                     /\ \E k \in Invocations :
                           /\ Innermost(k) /\ i \in AncestorsOrSelf(k)
                           /\ current_span[root] = inv[k].span
               /\ Innermost(i) => current_span[root] = inv[i].span
               /\ Done(i) => SpanOf(i).exited = 1

\* When a wrapper exits, the span that was current when it was entered is
\* the current span again: the span of the enclosing call, still open, or
\* none at top level.
RestoresOnExit ==
    \A i \in Invocations :
        (inv[i].pc = "running" /\ inv'[i].pc = "done") =>
            /\ current_span'[chain[i].root] = chain[i].token
            /\ chain[i].parent # 0 =>
                  /\ current_span'[chain[i].root] = inv[chain[i].parent].span
                  /\ spans'[inv[chain[i].parent].span].exited = 0
                  /\ Innermost(chain[i].parent)'

\* C13: within one call chain spans nest last-in first-out: the wrapper's
\* span is current for the duration of the wrapped call, a span opened inside
\* it is its child and starts no earlier than it, the parent is closed only
\* after every child is closed, and after a wrapper exits the span that was
\* current before it is current again.
C13_SpansNestLIFO == []NestedLIFO /\ [][RestoresOnExit]_vars

\* A call made inside a running wrapped call has ended and closed its span,
\* and the enclosing call, still running on its open span, has its span
\* current again.
C13_Witness ==
    \E i, j \in Invocations :
        /\ chain[j].parent = i /\ Done(j) /\ inv[j].span # 0
        /\ SpanOf(j).exited = 1 /\ inv[j].func_outcome \in {"returned", "raised"}
        /\ inv[i].pc = "running" /\ SpanOf(i).exited = 0
        /\ chain[j].token = inv[i].span
        /\ current_span[chain[i].root] = inv[i].span

====
